---- MODULE Spec2Model ----
(***************************************************************************)
(* The food-ordering service of src/main.py: four SQLite tables (orders,   *)
(* order_items, categories, feedback) behind FastAPI handlers.  Every      *)
(* handler opens its own connection, so the only shared state is the       *)
(* database file; tables are sequences of rows in rowid order.             *)
(***************************************************************************)
EXTENDS Integers, Sequences, FiniteSets, TLC

\* ------------------------------------------------------------------ bounds
MaxOrders == 2
MaxItems == 1
MaxFeedback == 1
MaxCategorySeq == 12
MaxConcurrentSeq == 13

\* ------------------------------------------------------------ input sets
Users == {1, 2}
ItemInputs == {[dish_id |-> 1, quantity |-> 2], [dish_id |-> 2, quantity |-> 1]}
Dishes == {1, 2}
StatusInputs == {"Delivered"}
OrderIdInputs == 1..(MaxOrders + 1)
RatingInputs == {5, 9}
CommentInputs == {"tasty"}
NameInputs == {"Desserts", "Soups"}
CategoryIdInputs == 1..(MaxCategorySeq + 1)
Workers == {1, 2}

ItemLists == UNION {[1..n -> ItemInputs] : n \in 0..MaxItems}

\* ----------------------------------------------------- program constants
HTTP_200_OK == 200
HTTP_201_CREATED == 201
HTTP_400_BAD_REQUEST == 400
HTTP_404_NOT_FOUND == 404
HTTP_500_INTERNAL_SERVER_ERROR == 500

predefined_categories ==
  << "Appetizer", "Veg Curries", "Pickles", "Veg Fry", "Dal",
     "Non Veg Curries", "Veg Rice", "Non-Veg Rice", "Veg Pulusu", "Breads", "Desserts" >>

\* updateCategory is tried on the "Desserts" row and on the first row created after seeding
RenameIdInputs == {Len(predefined_categories), Len(predefined_categories) + 1}
ConcurrentNameInputs == {"Desserts", "Soups", "Salads"}

VARIABLES
  schema,           \* TRUE once startup has created the four tables
  orders,           \* rows [order_id, user_id, status]
  order_items,      \* rows [id, order_id, dish_id, quantity]
  categories,       \* rows [category_id, name]
  feedback,         \* rows [feedback_id, user_id, order_id, dish_id, comments, rating]
  sqlite_sequence,  \* AUTOINCREMENT: the largest rowid ever committed, per table
  call,             \* the last operation invoked, with its arguments
  resp,             \* the response it produced
  wpc,              \* concurrent add_category: each worker's position
  wname,            \* concurrent add_category: the name a worker is adding
  wresp             \* concurrent add_category: each worker's last response

vars == << schema, orders, order_items, categories, feedback, sqlite_sequence,
           call, resp, wpc, wname, wresp >>

tables == << orders, order_items, categories, feedback, sqlite_sequence >>
workers == << wpc, wname, wresp >>

\* ---------------------------------------------------------------- helpers
Ok(code, body) == [code |-> code, detail |-> "", body |-> body]
HTTPException(code, detail) == [code |-> code, detail |-> detail, body |-> << >>]

NoResponse == [code |-> 0, detail |-> "", body |-> << >>]

Init ==
  /\ schema = FALSE
  /\ orders = << >>
  /\ order_items = << >>
  /\ categories = << >>
  /\ feedback = << >>
  /\ sqlite_sequence = [orders |-> 0, order_items |-> 0, categories |-> 0, feedback |-> 0]
  /\ call = [op |-> "none"]
  /\ resp = NoResponse
  /\ wpc = [w \in Workers |-> "idle"]
  /\ wname = [w \in Workers |-> ""]
  /\ wresp = [w \in Workers |-> NoResponse]

\* ------------------------------------------------------------- startup
\* INSERT INTO categories (name) VALUES (?) for each name, ids from the sequence.
SeedRows(first_id) ==
  [i \in 1..Len(predefined_categories) |->
     [category_id |-> first_id + i - 1, name |-> predefined_categories[i]]]

\* CategoriesEmpty with the count check dropped
CategoriesEmptyAlways == TRUE

\* cursor.fetchone()[0] == 0 after SELECT COUNT(*) FROM categories
CategoriesEmpty == Len(categories) = 0

Startup ==
  /\ CategoriesEmpty => sqlite_sequence.categories <= MaxCategorySeq
  /\ schema' = TRUE
  /\ IF CategoriesEmpty
     THEN /\ categories' = categories \o SeedRows(sqlite_sequence.categories + 1)
          /\ sqlite_sequence' =
               [sqlite_sequence EXCEPT !.categories = @ + Len(predefined_categories)]
     ELSE UNCHANGED << categories, sqlite_sequence >>
  /\ call' = [op |-> "startup"]
  /\ resp' = NoResponse
  /\ UNCHANGED << orders, order_items, feedback, workers >>

\* ------------------------------------------------------ order management
\* The gated handlers are modelled for requests that present a bearer token
\* (Depends(oauth_scheme) accepts any).

\* OrdersById with the WHERE clause lost
OrdersByIdNoWhere(order_id) == orders

\* SELECT * FROM orders WHERE order_id = ?
OrdersById(order_id) == SelectSeq(orders, LAMBDA o : o.order_id = order_id)

\* OrdersByUser with the WHERE clause lost
OrdersByUserNoWhere(user_id) == orders

\* SELECT * FROM orders WHERE user_id = ?
OrdersByUser(user_id) == SelectSeq(orders, LAMBDA o : o.user_id = user_id)

\* SELECT * FROM order_items WHERE order_id = ?, projected to dish_id and quantity
OrderItemsOf(order_id) ==
  LET rows == SelectSeq(order_items, LAMBDA r : r.order_id = order_id)
  IN  [i \in 1..Len(rows) |-> [dish_id |-> rows[i].dish_id, quantity |-> rows[i].quantity]]

\* one element of response_orders
OrderResponse(order) ==
  [order_id |-> order.order_id, user_id |-> order.user_id,
   items |-> OrderItemsOf(order.order_id), status |-> order.status]

\* INSERT INTO orders (user_id, status) VALUES (?, 'Booked Successfully')
NewOrderRow(order_id, user_id) ==
  [order_id |-> order_id, user_id |-> user_id, status |-> "Booked Successfully"]

\* NewItemRows with the loop stopping one item short
NewItemRowsOffByOne(order_id, items, first_id) ==
  [i \in 1..(Len(items) - 1) |->
     [id |-> first_id + i - 1, order_id |-> order_id,
      dish_id |-> items[i].dish_id, quantity |-> items[i].quantity]]

\* INSERT INTO order_items (order_id, dish_id, quantity) for each item of the request
NewItemRows(order_id, items, first_id) ==
  [i \in 1..Len(items) |->
     [id |-> first_id + i - 1, order_id |-> order_id,
      dish_id |-> items[i].dish_id, quantity |-> items[i].quantity]]

\* A storage error (sqlite3.Error) may hit any statement of create_order:
\*   0 none, 1 the order INSERT, 2 the first commit,
\*   2 + k the INSERT of item k, Len(items) + 3 the final commit.
FaultPoints(items) == 0..(Len(items) + 3)

\* The order row is committed (line 81) before any item is inserted, so the
\* rollback of the except branch reaches back only to that commit.
OrderCommitted(fault) == fault = 0 \/ fault > 2

ItemsCommitted(fault) == fault = 0

CreateOrder(user_id, items, fault) ==
  /\ schema
  /\ sqlite_sequence.orders < MaxOrders
  /\ LET order_id == sqlite_sequence.orders + 1
     IN  /\ IF OrderCommitted(fault)
            THEN /\ orders' = Append(orders, NewOrderRow(order_id, user_id))
                 /\ IF ItemsCommitted(fault)
                    THEN /\ order_items' = order_items \o
                              NewItemRows(order_id, items, sqlite_sequence.order_items + 1)
                         /\ sqlite_sequence' =
                              [sqlite_sequence EXCEPT !.orders = order_id,
                                                      !.order_items = @ + Len(items)]
                    ELSE /\ order_items' = order_items
                         /\ sqlite_sequence' = [sqlite_sequence EXCEPT !.orders = order_id]
            ELSE UNCHANGED << orders, order_items, sqlite_sequence >>
         /\ resp' = IF fault = 0
                    THEN Ok(HTTP_201_CREATED,
                            [order_id |-> order_id, user_id |-> user_id,
                             items |-> items, status |-> "Booked Successfully"])
                    ELSE HTTPException(HTTP_400_BAD_REQUEST, "Error creating order")
  /\ call' = [op |-> "createOrder", user_id |-> user_id, items |-> items, fault |-> fault]
  /\ UNCHANGED << schema, categories, feedback, workers >>

GetUserOrders(user_id) ==
  /\ schema
  /\ LET found == OrdersByUser(user_id)
     IN  resp' = IF Len(found) = 0
                 THEN HTTPException(HTTP_404_NOT_FOUND, "No orders found for user")
                 ELSE Ok(HTTP_200_OK, [i \in 1..Len(found) |-> OrderResponse(found[i])])
  /\ call' = [op |-> "listOrdersForUser", user_id |-> user_id]
  /\ UNCHANGED << schema, tables, workers >>

GetAllOrders ==
  /\ schema
  /\ resp' = IF Len(orders) = 0
             THEN HTTPException(HTTP_404_NOT_FOUND, "No orders found")
             ELSE Ok(HTTP_200_OK, [i \in 1..Len(orders) |-> OrderResponse(orders[i])])
  /\ call' = [op |-> "listAllOrders"]
  /\ UNCHANGED << schema, tables, workers >>

\* SetStatus with the WHERE clause lost
SetStatusNoWhere(order_id, new_status) ==
  [i \in 1..Len(orders) |-> [orders[i] EXCEPT !.status = new_status]]

\* UPDATE orders SET status = ? WHERE order_id = ?
SetStatus(order_id, new_status) ==
  [i \in 1..Len(orders) |->
     IF orders[i].order_id = order_id
     THEN [orders[i] EXCEPT !.status = new_status]
     ELSE orders[i]]

UpdateOrderStatus(order_id, new_status) ==
  /\ schema
  /\ LET found == OrdersById(order_id)
     IN  IF Len(found) = 0
         THEN /\ resp' = HTTPException(HTTP_404_NOT_FOUND, "Order not found")
              /\ orders' = orders
         ELSE /\ orders' = SetStatus(order_id, new_status)
              /\ resp' = Ok(HTTP_200_OK,
                            [order_id |-> found[1].order_id, user_id |-> found[1].user_id,
                             items |-> OrderItemsOf(order_id), status |-> new_status])
  /\ call' = [op |-> "updateOrderStatus", order_id |-> order_id, status |-> new_status]
  /\ UNCHANGED << schema, order_items, categories, feedback, sqlite_sequence, workers >>

\* ---------------------------------------------------------------- feedback
\* INSERT INTO feedback (user_id, order_id, dish_id, comments, rating)
NewFeedbackRow(feedback_id, fb) ==
  [feedback_id |-> feedback_id, user_id |-> fb.user_id, order_id |-> fb.order_id,
   dish_id |-> fb.dish_id, comments |-> fb.comments, rating |-> fb.rating]

\* SELECT * FROM feedback WHERE dish_id = ?, projected to the Feedback model
FeedbackForDish(dish_id) ==
  LET rows == SelectSeq(feedback, LAMBDA f : f.dish_id = dish_id)
  IN  [i \in 1..Len(rows) |->
         [user_id |-> rows[i].user_id, order_id |-> rows[i].order_id,
          dish_id |-> rows[i].dish_id, comments |-> rows[i].comments,
          rating |-> rows[i].rating]]

FeedbackInputs ==
  [user_id : Users, order_id : OrderIdInputs, dish_id : Dishes,
   comments : CommentInputs, rating : RatingInputs]

\* fault: a storage error (sqlite3.Error) on the INSERT or its commit, which the
\* except branch rolls back and reports as 400.
SubmitFeedback(fb, fault) ==
  /\ schema
  /\ sqlite_sequence.feedback < MaxFeedback
  /\ IF Len(OrdersById(fb.order_id)) = 0
     THEN /\ resp' = HTTPException(HTTP_404_NOT_FOUND, "Order not found")
          /\ UNCHANGED << feedback, sqlite_sequence >>
     ELSE IF fault
     THEN /\ resp' = HTTPException(HTTP_400_BAD_REQUEST, "Error submitting feedback")
          /\ UNCHANGED << feedback, sqlite_sequence >>
     ELSE /\ feedback' = Append(feedback, NewFeedbackRow(sqlite_sequence.feedback + 1, fb))
          /\ sqlite_sequence' = [sqlite_sequence EXCEPT !.feedback = @ + 1]
          /\ resp' = Ok(HTTP_200_OK, [message |-> "Feedback submitted successfully"])
  /\ call' = [op |-> "submitFeedback", feedback |-> fb, fault |-> fault]
  /\ UNCHANGED << schema, orders, order_items, categories, workers >>

GetFeedbackForDish(dish_id) ==
  /\ schema
  /\ LET found == FeedbackForDish(dish_id)
     IN  resp' = IF Len(found) = 0
                 THEN HTTPException(HTTP_404_NOT_FOUND, "No feedback found for this dish")
                 ELSE Ok(HTTP_200_OK, found)
  /\ call' = [op |-> "listFeedbackForDish", dish_id |-> dish_id]
  /\ UNCHANGED << schema, tables, workers >>

\* ------------------------------------------------------ order management
Next ==
  \/ Startup
  \/ \E u \in Users, items \in ItemLists : \E f \in FaultPoints(items) : CreateOrder(u, items, f)
  \/ \E u \in Users : GetUserOrders(u)
  \/ GetAllOrders
  \/ \E id \in OrderIdInputs, s \in StatusInputs : UpdateOrderStatus(id, s)

Spec == Init /\ [][Next]_vars

\* ---------------------------------------------------------------- feedback
\* Orders matter to feedback only by their ids: they are placed without faults,
\* each with the one item of FeedbackOrderItems.
FeedbackOrderItems == << [dish_id |-> 1, quantity |-> 1] >>

NextFeedback ==
  \/ Startup
  \/ \E u \in Users : CreateOrder(u, FeedbackOrderItems, 0)
  \/ \E fb \in FeedbackInputs, f \in BOOLEAN : SubmitFeedback(fb, f)
  \/ \E d \in Dishes : GetFeedbackForDish(d)

SpecFeedback == Init /\ [][NextFeedback]_vars

\* ---------------------------------------------------- category management
\* SELECT * FROM categories WHERE name = ?
CategoriesByName(name) == SelectSeq(categories, LAMBDA c : c.name = name)

\* SELECT * FROM categories WHERE category_id = ?
CategoriesById(category_id) == SelectSeq(categories, LAMBDA c : c.category_id = category_id)

\* DuplicateCategories without "AND category_id != ?"
DuplicateCategoriesAnyId(name, category_id) == CategoriesByName(name)

\* SELECT * FROM categories WHERE name = ? AND category_id != ?
DuplicateCategories(name, category_id) ==
  SelectSeq(categories, LAMBDA c : c.name = name /\ c.category_id # category_id)

\* UniqueViolation with the UNIQUE constraint left out of the schema
UniqueViolationNever(name, category_id) == FALSE

\* name TEXT NOT NULL UNIQUE: a write that would give a second row (other than
\* row category_id, 0 for an INSERT) this name raises sqlite3.IntegrityError.
UniqueViolation(name, category_id) ==
  \E i \in 1..Len(categories) :
    categories[i].name = name /\ categories[i].category_id # category_id

\* UPDATE categories SET name = ? WHERE category_id = ?
SetName(category_id, name) ==
  [i \in 1..Len(categories) |->
     IF categories[i].category_id = category_id
     THEN [categories[i] EXCEPT !.name = name]
     ELSE categories[i]]

\* DeleteRow with "<=" for "="
DeleteRowAndEarlier(category_id) == SelectSeq(categories, LAMBDA c : c.category_id > category_id)

\* DELETE FROM categories WHERE category_id = ?
DeleteRow(category_id) == SelectSeq(categories, LAMBDA c : c.category_id # category_id)

GetCategories ==
  /\ schema
  /\ resp' = IF Len(categories) = 0
             THEN HTTPException(HTTP_404_NOT_FOUND, "No categories found")
             ELSE Ok(HTTP_200_OK, categories)
  /\ call' = [op |-> "listCategories"]
  /\ UNCHANGED << schema, tables, workers >>

AddCategory(name) ==
  /\ schema
  /\ sqlite_sequence.categories < MaxCategorySeq
  /\ IF Len(CategoriesByName(name)) > 0
     THEN /\ resp' = HTTPException(HTTP_400_BAD_REQUEST, "Category already exists")
          /\ UNCHANGED << categories, sqlite_sequence >>
     ELSE IF UniqueViolation(name, 0)
     THEN /\ resp' = HTTPException(HTTP_500_INTERNAL_SERVER_ERROR, "Internal Server Error")
          /\ UNCHANGED << categories, sqlite_sequence >>
     ELSE /\ categories' = Append(categories,
               [category_id |-> sqlite_sequence.categories + 1, name |-> name])
          /\ sqlite_sequence' = [sqlite_sequence EXCEPT !.categories = @ + 1]
          /\ resp' = Ok(HTTP_201_CREATED,
               [category_id |-> sqlite_sequence.categories + 1, name |-> name])
  /\ call' = [op |-> "createCategory", name |-> name]
  /\ UNCHANGED << schema, orders, order_items, feedback, workers >>

UpdateCategory(category_id, name) ==
  /\ schema
  /\ IF Len(CategoriesById(category_id)) = 0
     THEN /\ resp' = HTTPException(HTTP_404_NOT_FOUND, "Category not found")
          /\ categories' = categories
     ELSE IF Len(DuplicateCategories(name, category_id)) > 0
     THEN /\ resp' = HTTPException(HTTP_400_BAD_REQUEST, "Category name already exists")
          /\ categories' = categories
     ELSE IF UniqueViolation(name, category_id)
     THEN /\ resp' = HTTPException(HTTP_500_INTERNAL_SERVER_ERROR, "Internal Server Error")
          /\ categories' = categories
     ELSE /\ categories' = SetName(category_id, name)
          /\ resp' = Ok(HTTP_200_OK,
               [message |-> << "Category with ID", category_id, "updated successfully" >>,
                category_id |-> category_id, name |-> name])
  /\ call' = [op |-> "updateCategory", category_id |-> category_id, name |-> name]
  /\ UNCHANGED << schema, orders, order_items, feedback, sqlite_sequence, workers >>

DeleteCategory(category_id) ==
  /\ schema
  /\ IF Len(CategoriesById(category_id)) = 0
     THEN /\ resp' = HTTPException(HTTP_404_NOT_FOUND, "Category not found")
          /\ categories' = categories
     ELSE /\ categories' = DeleteRow(category_id)
          /\ resp' = Ok(HTTP_200_OK,
               [message |-> << "Category with ID", category_id, "deleted successfully" >>])
  /\ call' = [op |-> "deleteCategory", category_id |-> category_id]
  /\ UNCHANGED << schema, orders, order_items, feedback, sqlite_sequence, workers >>

NextCategories ==
  \/ Startup
  \/ GetCategories
  \/ \E name \in NameInputs : AddCategory(name)
  \/ \E id \in RenameIdInputs, name \in NameInputs : UpdateCategory(id, name)
  \/ \E id \in CategoryIdInputs : DeleteCategory(id)

SpecCategories == Init /\ [][NextCategories]_vars

\* ------------------------------------------- concurrent add_category calls
\* Each worker is a server process running add_category on its own connection:
\* the SELECT (lines 202-205) and the INSERT with its commit (lines 208-209) are
\* separate statements, and another worker's statements may run between them.
AddCategoryCheck(w, name) ==
  /\ schema
  /\ wpc[w] \in {"idle", "returned"}
  /\ sqlite_sequence.categories < MaxConcurrentSeq
  /\ wname' = [wname EXCEPT ![w] = name]
  /\ IF Len(CategoriesByName(name)) > 0
     THEN /\ wresp' = [wresp EXCEPT ![w] =
                         HTTPException(HTTP_400_BAD_REQUEST, "Category already exists")]
          /\ wpc' = [wpc EXCEPT ![w] = "returned"]
     ELSE /\ wresp' = [wresp EXCEPT ![w] = NoResponse]
          /\ wpc' = [wpc EXCEPT ![w] = "passed"]
  /\ UNCHANGED << schema, tables, call, resp >>

AddCategoryInsert(w) ==
  /\ wpc[w] = "passed"
  /\ IF UniqueViolation(wname[w], 0)
     THEN /\ wresp' = [wresp EXCEPT ![w] =
                         HTTPException(HTTP_500_INTERNAL_SERVER_ERROR, "Internal Server Error")]
          /\ UNCHANGED << categories, sqlite_sequence >>
     ELSE /\ categories' = Append(categories,
               [category_id |-> sqlite_sequence.categories + 1, name |-> wname[w]])
          /\ sqlite_sequence' = [sqlite_sequence EXCEPT !.categories = @ + 1]
          /\ wresp' = [wresp EXCEPT ![w] = Ok(HTTP_201_CREATED,
               [category_id |-> sqlite_sequence.categories + 1, name |-> wname[w]])]
  /\ wpc' = [wpc EXCEPT ![w] = "returned"]
  /\ UNCHANGED << schema, orders, order_items, feedback, call, resp, wname >>

NextConcurrent ==
  \/ Startup
  \/ \E w \in Workers, name \in ConcurrentNameInputs : AddCategoryCheck(w, name)
  \/ \E w \in Workers : AddCategoryInsert(w)

SpecConcurrent == Init /\ [][NextConcurrent]_vars

\* ======================================================================
\* Properties
\* ======================================================================
\* The error taxonomy: an outcome is named by its cause.  The handlers carry
\* both BadRequest and Conflict with HTTP 400 and tell them apart by detail.
NotFound(r) == r.code = HTTP_404_NOT_FOUND
BadRequest(r) ==
  r.code = HTTP_400_BAD_REQUEST /\
  r.detail \in {"Error creating order", "Error submitting feedback"}
Conflict(r) ==
  r.code = HTTP_400_BAD_REQUEST /\
  r.detail \in {"Category already exists", "Category name already exists"}

\* the positions of the order_items rows of one order
ItemIndexes(items_table, order_id) ==
  {j \in 1..Len(items_table) : items_table[j].order_id = order_id}

\* seq lists exactly the rows of items_table with this order_id, in table order
ExactlyItemsOf(seq, items_table, order_id) ==
  LET J == ItemIndexes(items_table, order_id)
  IN  /\ Len(seq) = Cardinality(J)
      /\ \A j \in J :
           seq[Cardinality({k \in J : k <= j})] =
             [dish_id |-> items_table[j].dish_id, quantity |-> items_table[j].quantity]

\* ---------------------------------------------------------------- C1
CreateOrderEffect ==
  (call'.op = "createOrder" /\ resp'.code = HTTP_201_CREATED) =>
    LET N == Len(call'.items)
        new == orders'[Len(orders')]
    IN  /\ Len(orders') = Len(orders) + 1
        /\ SubSeq(orders', 1, Len(orders)) = orders
        /\ new.user_id = call'.user_id
        /\ new.status = "Booked Successfully"
        /\ \A i \in 1..Len(orders) : orders[i].order_id # new.order_id
        /\ ItemIndexes(order_items, new.order_id) = {}
        /\ resp'.body.order_id = new.order_id
        /\ Len(order_items') = Len(order_items) + N
        /\ SubSeq(order_items', 1, Len(order_items)) = order_items
        /\ \A k \in 1..N :
             LET r == order_items'[Len(order_items) + k]
             IN  /\ r.order_id = new.order_id
                 /\ r.dish_id = call'.items[k].dish_id
                 /\ r.quantity = call'.items[k].quantity
                 /\ \A j \in 1..Len(order_items) : order_items[j].id # r.id

CreateOrderThenListed ==
  ( /\ call.op = "createOrder"
    /\ resp.code = HTTP_201_CREATED
    /\ \/ call'.op = "listAllOrders"
       \/ (call'.op = "listOrdersForUser" /\ call'.user_id = call.user_id) ) =>
    /\ resp'.code = HTTP_200_OK
    /\ Cardinality({i \in 1..Len(resp'.body) :
                      resp'.body[i].order_id = resp.body.order_id}) = 1
    /\ \E i \in 1..Len(resp'.body) :
         resp'.body[i] = [order_id |-> resp.body.order_id, user_id |-> call.user_id,
                          items |-> call.items, status |-> "Booked Successfully"]

\* C1: a createOrder that succeeds with N items adds exactly one Order row (fresh
\* order_id, the given user_id, status "Booked Successfully") and exactly N
\* OrderItem rows carrying that order_id, changes no other row, and the next
\* listAllOrders or listOrdersForUser(user_id) returns that order with those items.
C1_CreateOrderAddsOneOrderAndNItems ==
  [][CreateOrderEffect /\ CreateOrderThenListed]_vars

\* C1 witness: an order placed with MaxItems items is listed after a second order exists.
C1_Witness ==
  /\ call.op = "listAllOrders"
  /\ resp.code = HTTP_200_OK
  /\ Len(resp.body) = 2
  /\ \E i \in 1..Len(resp.body) : Len(resp.body[i].items) = MaxItems

\* ---------------------------------------------------------------- C2
\* C2: when the Order insert succeeded and one of the OrderItem inserts fails,
\* createOrder returns BadRequest and the orders and order_items tables are the
\* same as before the call.
C2_MidwayFailureRolledBack ==
  [][ ( /\ call'.op = "createOrder"
        /\ call'.fault \in 3..(Len(call'.items) + 2) ) =>
      ( /\ BadRequest(resp')
        /\ orders' = orders
        /\ order_items' = order_items ) ]_vars

\* ---------------------------------------------------------------- C8
ListOrdersForUserExact ==
  call'.op = "listOrdersForUser" =>
    LET u == call'.user_id
        idx == {i \in 1..Len(orders) : orders[i].user_id = u}
    IN  /\ UNCHANGED << schema, tables >>
        /\ NotFound(resp') <=> idx = {}
        /\ idx # {} =>
             /\ resp'.code = HTTP_200_OK
             /\ Len(resp'.body) = Cardinality(idx)
             /\ \A i \in idx :
                  LET e == resp'.body[Cardinality({k \in idx : k <= i})]
                  IN  /\ e.order_id = orders[i].order_id
                      /\ e.user_id = u
                      /\ e.status = orders[i].status
                      /\ ExactlyItemsOf(e.items, order_items, orders[i].order_id)

FirstOrderThenListed ==
  ( /\ call.op = "createOrder"
    /\ resp.code = HTTP_201_CREATED
    /\ Cardinality({i \in 1..Len(orders) : orders[i].user_id = call.user_id}) = 1
    /\ call'.op = "listOrdersForUser"
    /\ call'.user_id = call.user_id ) =>
    resp'.body = << [order_id |-> resp.body.order_id, user_id |-> call.user_id,
                     items |-> call.items, status |-> "Booked Successfully"] >>

\* C8: listOrdersForUser(user_id) fails with NotFound exactly when no Order row has
\* that user_id; otherwise it returns exactly that user's orders, each with exactly
\* its own OrderItems and its current status; after the first createOrder of a user
\* it returns exactly that order; it changes no stored state.
C8_ListOrdersForUser ==
  [][ListOrdersForUserExact /\ FirstOrderThenListed]_vars

\* C8 witness: a listing for a user that returns one of two stored orders, whose
\* status has been updated, with its item.
C8_Witness ==
  /\ call.op = "listOrdersForUser"
  /\ resp.code = HTTP_200_OK
  /\ Len(orders) = 2
  /\ Len(resp.body) = 1
  /\ resp.body[1].status = "Delivered"
  /\ Len(resp.body[1].items) = MaxItems

\* ---------------------------------------------------------------- C9
UpdateOrderStatusEffect ==
  call'.op = "updateOrderStatus" =>
    LET id == call'.order_id
        s == call'.status
        idx == {i \in 1..Len(orders) : orders[i].order_id = id}
    IN  /\ UNCHANGED << schema, order_items, categories, feedback, sqlite_sequence >>
        /\ idx = {} => (NotFound(resp') /\ orders' = orders)
        /\ idx # {} =>
             /\ resp'.code = HTTP_200_OK
             /\ Len(orders') = Len(orders)
             /\ \A i \in 1..Len(orders) :
                  /\ orders'[i].order_id = orders[i].order_id
                  /\ orders'[i].user_id = orders[i].user_id
                  /\ orders'[i].status = IF i \in idx THEN s ELSE orders[i].status
             /\ resp'.body.order_id = id
             /\ \A i \in idx : resp'.body.user_id = orders[i].user_id
             /\ resp'.body.status = s
             /\ ExactlyItemsOf(resp'.body.items, order_items, id)

UpdateOrderStatusAgain ==
  ( /\ call.op = "updateOrderStatus"
    /\ resp.code = HTTP_200_OK
    /\ call'.op = "updateOrderStatus"
    /\ call'.order_id = call.order_id
    /\ call'.status = call.status ) =>
    ( /\ resp' = resp
      /\ UNCHANGED << schema, tables >> )

\* C9: updateOrderStatus(order_id, s) on an existing order sets that order's status
\* to s and returns the order with its items and status s, leaving its user_id, its
\* items and every other order unchanged; the same call repeated succeeds again and
\* leaves the state as it was after the first; on a non-existent order_id it fails
\* with NotFound and changes nothing.
C9_UpdateOrderStatus ==
  [][UpdateOrderStatusEffect /\ UpdateOrderStatusAgain]_vars

\* C9 witness: of two stored orders one has been updated, the other has not.
C9_Witness ==
  /\ call.op = "updateOrderStatus"
  /\ resp.code = HTTP_200_OK
  /\ Len(orders) = 2
  /\ \E i, j \in 1..Len(orders) :
       /\ orders[i].order_id = call.order_id
       /\ orders[i].status = call.status
       /\ orders[j].status = "Booked Successfully"
  /\ Len(resp.body.items) = MaxItems

\* ---------------------------------------------------------------- C5
SubmitFeedbackEffect ==
  call'.op = "submitFeedback" =>
    LET fb == call'.feedback
        exists == \E i \in 1..Len(orders) : orders[i].order_id = fb.order_id
    IN  /\ UNCHANGED << schema, orders, order_items, categories >>
        /\ ~exists => (NotFound(resp') /\ feedback' = feedback)
        /\ (exists /\ call'.fault) => (BadRequest(resp') /\ feedback' = feedback)
        /\ (exists /\ ~call'.fault) =>
             /\ resp'.code = HTTP_200_OK
             /\ Len(feedback') = Len(feedback) + 1
             /\ SubSeq(feedback', 1, Len(feedback)) = feedback
             /\ LET row == feedback'[Len(feedback')]
                IN  /\ row.user_id = fb.user_id
                    /\ row.order_id = fb.order_id
                    /\ row.dish_id = fb.dish_id
                    /\ row.comments = fb.comments
                    /\ row.rating = fb.rating

FeedbackThenListed ==
  ( /\ call.op = "submitFeedback"
    /\ resp.code = HTTP_200_OK
    /\ call'.op = "listFeedbackForDish"
    /\ call'.dish_id = call.feedback.dish_id ) =>
    /\ resp'.code = HTTP_200_OK
    /\ \E i \in 1..Len(resp'.body) : resp'.body[i] = call.feedback

FeedbackReferencesOrder ==
  \A i \in 1..Len(feedback) :
    \E j \in 1..Len(orders) : orders[j].order_id = feedback[i].order_id

NamesUnique ==
  \A i, j \in 1..Len(categories) : categories[i].name = categories[j].name => i = j

HasId(category_id) == \E i \in 1..Len(categories) : categories[i].category_id = category_id

OtherHasName(category_id, name) ==
  \E i \in 1..Len(categories) :
    categories[i].category_id # category_id /\ categories[i].name = name

CreateCategoryConflict ==
  (call'.op = "createCategory" /\ OtherHasName(0, call'.name)) =>
    (Conflict(resp') /\ categories' = categories)

UpdateCategoryConflict ==
  ( /\ call'.op = "updateCategory"
    /\ HasId(call'.category_id)
    /\ OtherHasName(call'.category_id, call'.name) ) =>
    (Conflict(resp') /\ categories' = categories)

UpdateCategoryAbsent ==
  (call'.op = "updateCategory" /\ ~HasId(call'.category_id)) =>
    (NotFound(resp') /\ categories' = categories)

RenameToOwnName ==
  ( /\ call'.op = "updateCategory"
    /\ \E i \in 1..Len(categories) :
         categories[i].category_id = call'.category_id /\ categories[i].name = call'.name ) =>
    (resp'.code = HTTP_200_OK /\ categories' = categories)

\* C3 as amended: category names stay unique under sequential createCategory,
\* updateCategory and deleteCategory calls; createCategory(name) fails with Conflict
\* and changes nothing when the name exists; updateCategory(id, new_name) on an
\* existing id fails with Conflict and changes nothing when a different id has
\* new_name, and on an absent id fails with NotFound whatever the name; renaming a
\* category to its own current name succeeds.
C3_CategoryNamesUnique ==
  /\ []NamesUnique
  /\ [][ /\ CreateCategoryConflict
         /\ UpdateCategoryConflict
         /\ UpdateCategoryAbsent
         /\ RenameToOwnName ]_vars

\* C3 as stated: updateCategory(id, new_name) fails with Conflict whenever a
\* category with a different id already has new_name.
C3_AsStated ==
  /\ []NamesUnique
  /\ [][ /\ CreateCategoryConflict
         /\ (call'.op = "updateCategory" /\ OtherHasName(call'.category_id, call'.name)) =>
              (Conflict(resp') /\ categories' = categories)
         /\ RenameToOwnName ]_vars

\* C3 witness: a rename of an existing category was refused for a name another holds.
C3_Witness ==
  /\ call.op = "updateCategory"
  /\ Conflict(resp)
  /\ HasId(call.category_id)
  /\ OtherHasName(call.category_id, call.name)

\* ---------------------------------------------------------------- C10
DeleteCategoryEffect ==
  call'.op = "deleteCategory" =>
    LET id == call'.category_id
        idx == {i \in 1..Len(categories) : categories[i].category_id = id}
    IN  /\ UNCHANGED << schema, orders, order_items, feedback, sqlite_sequence >>
        /\ idx = {} => (NotFound(resp') /\ categories' = categories)
        /\ idx # {} =>
             /\ resp'.code = HTTP_200_OK
             /\ Len(categories') = Len(categories) - 1
             /\ \A i \in (1..Len(categories)) \ idx :
                  categories'[i - Cardinality({k \in idx : k < i})] = categories[i]

DeleteThenListed ==
  ( /\ call.op = "deleteCategory"
    /\ resp.code = HTTP_200_OK
    /\ call'.op = "listCategories" ) =>
    IF Len(categories) = 0
    THEN NotFound(resp')
    ELSE /\ resp'.code = HTTP_200_OK
         /\ Len(resp'.body) = Len(categories)
         /\ \A i \in 1..Len(resp'.body) : resp'.body[i].category_id # call.category_id

\* C10: deleteCategory(category_id) on an existing category removes exactly that row
\* and leaves every other category unchanged, so the next listCategories does not
\* include it (NotFound if it was the last one); on an absent category_id it fails
\* with NotFound and changes nothing.
C10_DeleteCategory ==
  [][DeleteCategoryEffect /\ DeleteThenListed]_vars

\* C10 witness: the last category has been deleted and the listing answers NotFound.
C10_Witness ==
  /\ call.op = "listCategories"
  /\ NotFound(resp)
  /\ Len(categories) = 0
  /\ sqlite_sequence.categories >= Len(predefined_categories)

\* ---------------------------------------------------------------- C6
ElevenNames ==
  << "Appetizer", "Veg Curries", "Pickles", "Veg Fry", "Dal", "Non Veg Curries",
     "Veg Rice", "Non-Veg Rice", "Veg Pulusu", "Breads", "Desserts" >>

StartupSeedsEmpty ==
  (call'.op = "startup" /\ Len(categories) = 0) =>
    /\ Len(categories') = Len(ElevenNames)
    /\ \A i \in 1..Len(ElevenNames) :
         /\ categories'[i].name = ElevenNames[i]
         /\ categories'[i].category_id = sqlite_sequence.categories + i
    /\ \A i, j \in 1..Len(categories') :
         categories'[i].name = categories'[j].name => i = j
    /\ UNCHANGED << orders, order_items, feedback >>

StartupAgainChangesNothing ==
  (call'.op = "startup" /\ Len(categories) > 0) => UNCHANGED << schema, tables >>

\* C6: startup on an empty database leaves exactly the eleven predefined names, in
\* order, with consecutive generated ids and no duplicates; startup on the resulting
\* state (on any state with a category) changes nothing.
C6_StartupSeedsOnce ==
  [][StartupSeedsEmpty /\ StartupAgainChangesNothing]_vars

\* C6 witness: the fresh database after startup: eleven rows, ids 1 to 11.
C6_Witness ==
  /\ call.op = "startup"
  /\ Len(categories) = Len(ElevenNames)
  /\ categories[1].category_id = 1
  /\ categories[Len(ElevenNames)] = [category_id |-> Len(ElevenNames), name |-> "Desserts"]

\* ---------------------------------------------------------------- C7
\* C7: once the first startup has seeded the default categories (the schema exists),
\* no later startup inserts them again, whatever category operations came between.
C7_SeededAtMostOnce ==
  [][ (schema /\ call'.op = "startup") => categories' = categories ]_vars

\* ---------------------------------------------------------------- C4
InsertExecuted(w) ==
  wpc[w] = "returned" /\ wresp[w].code \in {HTTP_201_CREATED, HTTP_500_INTERNAL_SERVER_ERROR}

\* both calls passed the existence check for one name and both ran their INSERT
Raced ==
  /\ \A w \in Workers : InsertExecuted(w)
  /\ \A v, w \in Workers : wname[v] = wname[w]

RowsNamed(name) == {i \in 1..Len(categories) : categories[i].name = name}

\* C4 as amended: two concurrent createCategory calls with one name can both pass
\* the existence check, but only one INSERT takes effect: the UNIQUE constraint on
\* categories.name fails the other with an uncaught storage error (HTTP 500), and
\* the table never holds two rows with the same name.
C4_RaceStoppedByUniqueConstraint ==
  /\ NamesUnique
  /\ Raced =>
       /\ \A w \in Workers : Cardinality(RowsNamed(wname[w])) = 1
       /\ Cardinality({w \in Workers : wresp[w].code = HTTP_201_CREATED}) = 1
       /\ Cardinality({w \in Workers : wresp[w].code = HTTP_500_INTERNAL_SERVER_ERROR}) =
            Cardinality(Workers) - 1

\* C4 as stated: in the interleaving where both calls pass the existence check and
\* both run their INSERT, both inserts take effect and two rows have the name.  (The
\* interleaving fixes the outcome, so "there is such an interleaving" and "every
\* such interleaving" say the same.)
C4_AsStated ==
  Raced => \A w \in Workers : Cardinality(RowsNamed(wname[w])) = Cardinality(Workers)

\* C4 witness: both workers passed the check for "Soups" and both ran their INSERT.
C4_Witness ==
  /\ Raced
  /\ \A w \in Workers : wname[w] = "Soups"

====
